---- MODULE Spec2Model ----
(***************************************************************************)
(* Verification model of the seasonality data loaders:                     *)
(*   - mrci_data.py      the scrape run with its persisted checkpoint      *)
(*   - databento_data.py the vendor-API run, the record normalizers, the   *)
(*                       upsert writers and the active-contract generator  *)
(* Dates are day ordinals (days since 1970-01-01); instants are hours      *)
(* since the epoch, the unit the model scales nanosecond stamps to.        *)
(***************************************************************************)
EXTENDS Integers, Sequences, FiniteSets, TLC

VARIABLES
    \* ---- mrci_data.py ----
    s_pc,          \* position of the scrape process
    s_ckpt,        \* committed scrape_log_mrci.last_date (NoRow: no row yet)
    s_rows,        \* committed mrci_contract_prices: key -> stored columns
    s_nextId,      \* next mrci_contract_prices.id (BIGSERIAL; gaps are not modelled)
    s_assets,      \* the assets table as load_asset_lookup reads it: symbol -> id
    s_run,         \* number of scrape runs started
    s_start,       \* run(start=...): explicit start, or None
    s_end,         \* run(end=...) after "end or date.today()"
    s_current,     \* the loop variable current
    s_from,        \* the date get_last_scraped returned to this run (NoDate: none yet)
    s_attempts,    \* days whose page the loop of this run has fetched, in order
    s_last,        \* what the latest step of the scrape process did
    s_maxCkpt,     \* the latest date s_ckpt has ever held (history)
    \* ---- databento_data.py: the normalizers and writers on their own ----
    tz,            \* the local UTC offset of the process, in hours
    n_fn,          \* the writer under study: "futures" or "stock"
    n_a, n_b,      \* two vendor records
    n_tbl,         \* continuous_prices
    n_out,         \* the results of the calls made so far, in order
    \* ---- databento_data.get_active_contracts ----
    c_pc,          \* "loop" inside "for i in range(4)", then "returned"
    c_root,        \* argument root
    c_date,        \* argument trade_date
    c_i,           \* loop variable i
    c_contracts,   \* the list contracts
    \* ---- databento_data.run ----
    v_pc,          \* position of the vendor-API process
    v_run,         \* number of runs started
    v_flags,       \* dry_run, futures_only, stocks_only of the current run
    v_world,       \* which data the vendor holds for the date range
    v_todo,        \* the sections of run still to do, the current one first
    v_i,           \* loop index of the fetch function in progress
    v_records,     \* all_records of the fetch function in progress / returned
    v_reqs,        \* groups requested from the vendor in this run, in order
    v_fails,       \* the requests of this run that raised, with their message
    v_fetched,     \* sections whose fetch function has returned in this run
    v_assets,      \* committed assets rows
    v_prices,      \* committed continuous_prices rows
    v_ensured,     \* symbols ensure_assets_exist committed in this run (history)
    v_wrote,       \* price rows the writers committed in this run (history)
    v_db0,         \* assets and continuous_prices when this run started (history)
    v_prev,        \* summary of the run before this one (history)
    v_outcome,     \* how the latest run ended
    v_env,         \* the environment of the latest run: which variable is missing
    \* ---- mrci_data.parse_html on its own ----
    p_pc,          \* "start", "loop" inside "for tr in table.find_all('tr')", "returned"
    p_lookup,      \* argument asset_lookup
    p_trs,         \* the tr elements the loop has gone through, in order
    p_acc,         \* current_root, rows and stats
    p_out          \* the returned (rows, stats)

\* Python's None and an optional value: the empty tuple, or <<x>>
None == <<>>
Some(x) == <<x>>
The(o) == o[1]
\* no scrape_log_mrci row, and no date (dates are positive ordinals)
NoRow == 0
NoDate == 0

\* ------------------------------------------------------------------ bounds
MaxDay == 1        \* days after DEFAULT_START a scrape run may span
MaxRuns == 2       \* scrape runs in one behaviour

\* ------------------------------------------------------- calendar (datetime)
\* datetime.date(y, m, d) as a day ordinal
date(y, m, d) ==
    LET yy == IF m <= 2 THEN y - 1 ELSE y
        era == yy \div 400
        yoe == yy - era * 400
        mp == IF m > 2 THEN m - 3 ELSE m + 9
        doy == (153 * mp + 2) \div 5 + d - 1
        doe == yoe * 365 + yoe \div 4 - yoe \div 100 + doy
    IN era * 146097 + doe - 719468

\* the (year, month, day) fields of a date
civil(z0) ==
    LET z == z0 + 719468
        era == z \div 146097
        doe == z - era * 146097
        yoe == (doe - doe \div 1460 + doe \div 36524 - doe \div 146096) \div 365
        doy == doe - (365 * yoe + yoe \div 4 - yoe \div 100)
        mp == (5 * doy + 2) \div 153
        d == doy - (153 * mp + 2) \div 5 + 1
        m == IF mp < 10 THEN mp + 3 ELSE mp - 9
        y == yoe + era * 400 + (IF m <= 2 THEN 1 ELSE 0)
    IN [year |-> y, month |-> m, day |-> d]

DEFAULT_START == date(2010, 1, 4)

Days == DEFAULT_START .. (DEFAULT_START + MaxDay)

\* ------------------------------------------------------------ text helpers
\* A text is a sequence of one-character strings.
Digits == <<"0", "1", "2", "3", "4", "5", "6", "7", "8", "9">>

IsDigit(c) == \E i \in 1..10 : Digits[i] = c

DigitVal(c) == (CHOOSE i \in 1..10 : Digits[i] = c) - 1

IsSpace(c) == c \in {" ", "\t", "\n"}

\* str.lower() on the letters the scraped pages use
LowerChar(c) ==
    CASE c = "T" -> "t" [] c = "O" -> "o" [] c = "A" -> "a" [] c = "L" -> "l"
      [] c = "V" -> "v" [] c = "U" -> "u" [] c = "M" -> "m" [] c = "E" -> "e"
      [] OTHER -> c

lower(x) == [i \in 1..Len(x) |-> LowerChar(x[i])]

RECURSIVE lstrip(_)
lstrip(x) == IF x # <<>> /\ IsSpace(Head(x)) THEN lstrip(Tail(x)) ELSE x

RECURSIVE rstrip(_)
rstrip(x) ==
    IF x # <<>> /\ IsSpace(x[Len(x)]) THEN rstrip(SubSeq(x, 1, Len(x) - 1)) ELSE x

\* str.strip()
strip(x) == rstrip(lstrip(x))

\* str.startswith
startswith(x, p) == Len(x) >= Len(p) /\ SubSeq(x, 1, Len(p)) = p

\* x.replace(",", "")
NoCommas(x) == SelectSeq(x, LAMBDA c : c # ",")

AllDigits(x) == x # <<>> /\ \A i \in 1..Len(x) : IsDigit(x[i])

RECURSIVE ToNat(_)
ToNat(x) ==
    IF x = <<>> THEN 0
    ELSE ToNat(SubSeq(x, 1, Len(x) - 1)) * 10 + DigitVal(x[Len(x)])

\* n as two decimal digits, as "%02d" and strftime's %y %m %d write it
Fmt02(n) == <<Digits[((n \div 10) % 10) + 1], Digits[(n % 10) + 1]>>

Raise == [ok |-> FALSE, v |-> None]
Val(v) == [ok |-> TRUE, v |-> v]   \* v: None or Some(number)

Unsigned(x) == IF x # <<>> /\ Head(x) \in {"-", "+"} THEN Tail(x) ELSE x
Sign(x) == IF x # <<>> /\ Head(x) = "-" THEN -1 ELSE 1
DotAt(x) == IF \E i \in 1..Len(x) : x[i] = "."
            THEN CHOOSE i \in 1..Len(x) : x[i] = "." /\ \A j \in 1..(i - 1) : x[j] # "."
            ELSE 0

\* float(x) of a stripped text: the value in thousandths, or a ValueError
PyFloat(x) ==
    LET u == Unsigned(x)
        k == DotAt(u)
        ip == IF k = 0 THEN u ELSE SubSeq(u, 1, k - 1)
        fp == IF k = 0 THEN <<>> ELSE SubSeq(u, k + 1, Len(u))
        f3 == SubSeq(fp \o <<"0", "0", "0">>, 1, 3)
    IN IF /\ (ip # <<>> \/ fp # <<>>)
          /\ \A i \in 1..Len(ip) : IsDigit(ip[i])
          /\ \A i \in 1..Len(fp) : IsDigit(fp[i])
       THEN Val(Some(Sign(x) * (ToNat(ip) * 1000 + ToNat(f3))))
       ELSE Raise

\* int(x) of a stripped text, or a ValueError
PyInt(x) ==
    IF AllDigits(Unsigned(x)) THEN Val(Some(Sign(x) * ToNat(Unsigned(x)))) ELSE Raise

Nbsp == <<"&", "n", "b", "s", "p", ";">>

to_float(x0) ==
    LET x == strip(NoCommas(x0))
    IN IF x \in {<<>>, <<"-">>, Nbsp} THEN Val(None) ELSE PyFloat(x)

to_int(x0) ==
    LET x == strip(NoCommas(x0))
    IN IF x \in {<<>>, <<"-">>, Nbsp} THEN Val(None) ELSE PyInt(x)

IsLeap(y) == y % 4 = 0 /\ (y % 100 # 0 \/ y % 400 = 0)

DaysInMonth(y, m) ==
    IF m = 2 THEN (IF IsLeap(y) THEN 29 ELSE 28)
    ELSE IF m \in {4, 6, 9, 11} THEN 30 ELSE 31

\* parse_yymmdd: a date, or None
parse_yymmdd(x0) ==
    LET x == strip(x0)
    IN IF ~(Len(x) = 6 /\ AllDigits(x)) THEN None
       ELSE LET yy == ToNat(SubSeq(x, 1, 2))
                yyyy == IF yy >= 70 THEN 1900 + yy ELSE 2000 + yy
                mm == ToNat(SubSeq(x, 3, 4))
                dd == ToNat(SubSeq(x, 5, 6))
            IN IF mm \in 1..12 /\ dd >= 1 /\ dd <= DaysInMonth(yyyy, mm)
               THEN Some(date(yyyy, mm, dd)) ELSE None

\* current.strftime('%y%m%d')
yymmdd(d) ==
    LET c == civil(d) IN Fmt02(c.year % 100) \o Fmt02(c.month) \o Fmt02(c.day)

\* ------------------------------------------------------ mrci_data.parse_html
\* A section name is the sequence of its words (the text joined by one blank).
NameToRootTable ==
    { <<<<"Soybeans(CBOT)">>, "S">>, <<<<"Soybean", "Meal(CBOT)">>, "SM">>,
      <<<<"Soybean", "Oil(CBOT)">>, "BO">>, <<<<"Corn(CBOT)">>, "C">>,
      <<<<"Wheat(CBOT)">>, "W">>, <<<<"Wheat(KCBT)">>, "KW">>,
      <<<<"Wheat(MGE)">>, "MW">>, <<<<"Oats(CBOT)">>, "O">>,
      <<<<"Rough", "Rice(CBOT)">>, "RR">>, <<<<"Live", "Cattle(CME)">>, "LC">>,
      <<<<"Feeder", "Cattle(CME)">>, "FC">>, <<<<"Lean", "Hogs(CME)">>, "LH">>,
      <<<<"Pork", "Bellies(CME)">>, "PB">>,
      <<<<"Class", "III", "Milk(CME)">>, "DA">>, <<<<"Cocoa(ICE)">>, "CC">>,
      <<<<"Coffee", "\"C\"(ICE)">>, "KC">>, <<<<"Sugar", "#11(ICE)">>, "SB">>,
      <<<<"Cotton(ICE)">>, "CT">>, <<<<"Orange", "Juice(ICE)">>, "OJ">>,
      <<<<"Canola(WCE)">>, "RS">>, <<<<"London", "Cocoa(LCE)">>, "LCC">>,
      <<<<"London", "Sugar(LCE)">>, "LSU">> }

\* NAME_TO_ROOT.get(name)
NAME_TO_ROOT(name) ==
    IF \E p \in NameToRootTable : p[1] = name
    THEN Some((CHOOSE p \in NameToRootTable : p[1] = name)[2])
    ELSE None

\* " ".join(th_note.get_text(" ", strip=True).split()): the words of the
\* header's tokens, blanks dropped
SectionName(tokens) == SelectSeq(tokens, LAMBDA t : ~IsSpace(t) /\ t # "")

TotalVolume == <<"t", "o", "t", "a", "l", " ", "v", "o", "l", "u", "m", "e">>

NewStats(hadTable) ==
    [had_pre |-> FALSE, had_table |-> hadTable, lines_scanned |-> 0,
     rows_parsed |-> 0, rows_unknown_root |-> 0, rows_bad_format |-> 0,
     unknown_sections |-> {}]

\* a variant in which a header with an unmapped name leaves the root of the
\* section before it in force
SectionRoot_Sticky(current_root, name) ==
    IF NAME_TO_ROOT(name) = None THEN current_root ELSE NAME_TO_ROOT(name)

\* current_root = NAME_TO_ROOT.get(name): the root in force after a header
SectionRoot(current_root, name) == NAME_TO_ROOT(name)

\* a variant whose except clause skips the row without counting it
CountBadFormat_Skipped(stats) == stats

\* except Exception: stats["rows_bad_format"] += 1
CountBadFormat(stats) == [stats EXCEPT !.rows_bad_format = @ + 1]

\* the body of "for tr in table.find_all('tr')" for one tr
ParseTr(acc, tr, d, asset_lookup) ==
    IF tr.th # None THEN
        LET name == SectionName(The(tr.th))
            root == SectionRoot(acc.current_root, name)
        IN [acc EXCEPT !.current_root = root,
                       !.stats.unknown_sections =
                           IF root = None THEN @ \cup {name} ELSE @]
    ELSE IF tr.tds = <<>> THEN acc
    ELSE IF startswith(lower(strip(tr.tds[1])), TotalVolume) THEN acc
    ELSE IF Len(tr.tds) < 8 THEN acc
    ELSE
        LET scanned == [acc EXCEPT !.stats.lines_scanned = @ + 1] IN
        IF acc.current_root = None \/ The(acc.current_root) \notin DOMAIN asset_lookup
        THEN [scanned EXCEPT !.stats.rows_unknown_root = @ + 1]
        ELSE
            LET mth == strip(tr.tds[1])
                p == parse_yymmdd(strip(tr.tds[2]))
                d_row == IF p # None THEN The(p) ELSE d
                o == to_float(tr.tds[3])
                h == to_float(tr.tds[4])
                l == to_float(tr.tds[5])
                c == to_float(tr.tds[6])
                vol == IF Len(tr.tds) > 7 THEN to_int(tr.tds[8]) ELSE Val(None)
                oi == IF Len(tr.tds) > 8 THEN to_int(tr.tds[9]) ELSE Val(None)
            IN IF o.ok /\ h.ok /\ l.ok /\ c.ok /\ vol.ok /\ oi.ok
               THEN [scanned EXCEPT
                        !.rows = Append(@,
                            [asset_id |-> asset_lookup[The(acc.current_root)],
                             trade_date |-> d_row,
                             open |-> o.v, high |-> h.v, low |-> l.v,
                             close |-> c.v, volume |-> vol.v,
                             open_interest |-> oi.v, contract_code |-> mth]),
                        !.stats.rows_parsed = @ + 1]
               ELSE [scanned EXCEPT !.stats = CountBadFormat(@)]

RECURSIVE ParseTrs(_, _, _, _)
ParseTrs(acc, trs, d, asset_lookup) ==
    IF trs = <<>> THEN acc
    ELSE ParseTrs(ParseTr(acc, Head(trs), d, asset_lookup), Tail(trs), d, asset_lookup)

\* parse_html(html, d, asset_lookup) -> (rows, stats)
parse_html(page, d, asset_lookup) ==
    IF ~page.table
    THEN [rows |-> <<>>, stats |-> NewStats(FALSE)]
    ELSE LET r == ParseTrs([current_root |-> None, rows |-> <<>>,
                            stats |-> NewStats(TRUE)],
                           page.trs, d, asset_lookup)
         IN [rows |-> r.rows, stats |-> r.stats]

\* ---------------------------------------------------- mrci_data.insert_rows
RowKey(r) == <<r.asset_id, r.trade_date, r.contract_code>>

RowCols(r, id) ==
    [id |-> id, open |-> r.open, high |-> r.high, low |-> r.low, close |-> r.close,
     volume |-> r.volume, open_interest |-> r.open_interest]

\* a variant that overwrites the stored columns on conflict (DO UPDATE) and
\* keeps the id, as the vendor-API writers do; insert_rows does not
InsertDoUpdateOne(st, r) ==
    IF RowKey(r) \in DOMAIN st.tbl
    THEN [tbl |-> [st.tbl EXCEPT ![RowKey(r)] = RowCols(r, @.id)],
          nextId |-> st.nextId + 1, n |-> st.n + 1]
    ELSE [tbl |-> (RowKey(r) :> RowCols(r, st.nextId)) @@ st.tbl,
          nextId |-> st.nextId + 1, n |-> st.n + 1]

\* one VALUES row of the INSERT ... ON CONFLICT (asset_id, trade_date,
\* contract_code) DO NOTHING RETURNING 1: st = [tbl, nextId, n]
InsertOne(st, r) ==
    IF RowKey(r) \in DOMAIN st.tbl
    THEN st
    ELSE [tbl |-> (RowKey(r) :> RowCols(r, st.nextId)) @@ st.tbl,
          nextId |-> st.nextId + 1, n |-> st.n + 1]

RECURSIVE InsertAll(_, _)
InsertAll(st, batch) ==
    IF batch = <<>> THEN st ELSE InsertAll(InsertOne(st, Head(batch)), Tail(batch))

\* insert_rows(cur, batch): the table and sequence after it, and cur.rowcount
insert_rows(tbl, nextId, batch) ==
    IF batch = <<>> THEN [tbl |-> tbl, nextId |-> nextId, n |-> 0]
    ELSE InsertAll([tbl |-> tbl, nextId |-> nextId, n |-> 0], batch)

\* ------------------------------------------------------ pages of the site
Th(tokens) == [th |-> Some(tokens), tds |-> <<>>]
Td(cells) == [th |-> None, tds |-> cells]

\* a nine-column data row: month, date, O, H, L, C, change, volume, open interest
DataRow(mth, dcell, o, h, l, c, vol, oi) ==
    Td(<<mth, dcell, o, h, l, c, <<"0">>, vol, oi>>)

PageNoTable == [raised |-> FALSE, html |-> TRUE, table |-> FALSE, trs |-> <<>>]

PageCornA(d) ==
    [raised |-> FALSE, html |-> TRUE, table |-> TRUE,
     trs |-> << Th(<<"Corn(CBOT)">>),
                DataRow(<<"H">>, yymmdd(d), <<"4">>, <<"5">>, <<"3">>, <<"4", ".", "5">>,
                        <<"1", ",", "0", "0", "0">>, <<"7">>) >>]

\* the same contract and day with other prices, then the total-volume row
PageCornB(d) ==
    [raised |-> FALSE, html |-> TRUE, table |-> TRUE,
     trs |-> << Th(<<"Corn(CBOT)">>),
                DataRow(<<"H">>, yymmdd(d), <<"6">>, <<"7">>, <<"5">>, <<"6">>,
                        <<"2">>, <<"-">>),
                Td(<<<<"T", "o", "t", "a", "l", " ", "V", "o", "l", "u", "m", "e">>,
                     <<"2">>>>) >>]

\* an unmapped section, a short row and a row whose volume is no integer
PageJunk(d) ==
    [raised |-> FALSE, html |-> TRUE, table |-> TRUE,
     trs |-> << Th(<<"Gold(COMEX)">>),
                DataRow(<<"G">>, yymmdd(d), <<"1">>, <<"1">>, <<"1">>, <<"1">>,
                        <<"1">>, <<"1">>),
                Th(<<"Corn(CBOT)">>),
                Td(<<<<"H">>, <<"x">>>>),
                DataRow(<<"N">>, yymmdd(d), <<"1">>, <<"1">>, <<"1">>, <<"1">>,
                        <<"1", ".", "5">>, <<"1">>) >>]

PageBlank == [raised |-> FALSE, html |-> FALSE, table |-> FALSE, trs |-> <<>>]

\* page.goto or page.content raised
PageError == [raised |-> TRUE, html |-> FALSE, table |-> FALSE, trs |-> <<>>]

\* what page.content() may return for the day's URL
PagesOf(d) == {PageError, PageBlank, PageNoTable, PageCornA(d), PageCornB(d), PageJunk(d)}

NoAssets == <<>>
SeededAssets == ("C" :> 1) @@ ("W" :> 2)

\* ------------------------------------------------------- mrci_data.run
pvars == <<p_pc, p_lookup, p_trs, p_acc, p_out>>

\* parse_html is not running on its own
P_Idle ==
    /\ p_pc = "off"
    /\ p_lookup = <<>>
    /\ p_trs = <<>>
    /\ p_acc = <<>>
    /\ p_out = <<>>

nvars == <<tz, n_fn, n_a, n_b, n_tbl, n_out>>

\* the writers are not running
N_Idle ==
    /\ tz = 0
    /\ n_fn = ""
    /\ n_a = <<>>
    /\ n_b = <<>>
    /\ n_tbl = <<>>
    /\ n_out = <<>>

cvars == <<c_pc, c_root, c_date, c_i, c_contracts>>

\* get_active_contracts is not running
C_Idle ==
    /\ c_pc = "off"
    /\ c_root = ""
    /\ c_date = NoDate
    /\ c_i = 0
    /\ c_contracts = <<>>

vvars == <<v_pc, v_run, v_flags, v_world, v_todo, v_i, v_records, v_reqs,
          v_fails, v_fetched, v_assets, v_prices, v_ensured, v_wrote, v_db0,
          v_prev, v_outcome, v_env>>

NoFlags == [dry_run |-> FALSE, futures_only |-> FALSE, stocks_only |-> FALSE]
NoDb == [assets |-> <<>>, prices |-> <<>>]
NoRun == [valid |-> FALSE, flags |-> NoFlags, full |-> FALSE]

\* databento_data.run is not running
V_Idle ==
    /\ v_pc = "off"
    /\ v_run = 0
    /\ v_flags = NoFlags
    /\ v_world = 0
    /\ v_todo = <<>>
    /\ v_i = 0
    /\ v_records = <<>>
    /\ v_reqs = <<>>
    /\ v_fails = <<>>
    /\ v_fetched = {}
    /\ v_assets = <<>>
    /\ v_prices = <<>>
    /\ v_ensured = {}
    /\ v_wrote = <<>>
    /\ v_db0 = NoDb
    /\ v_prev = NoRun
    /\ v_outcome = ""
    /\ v_env = ""

svars == <<s_pc, s_ckpt, s_rows, s_nextId, s_assets, s_run, s_start, s_end,
           s_current, s_from, s_attempts, s_last, s_maxCkpt>>

Later(a, b) == IF a >= b THEN a ELSE b

\* s_last: kind of step; for a loop iteration its day, how the fetch ended
\* ("error", "blank", "html"), how the iteration ended ("committed": the try
\* body's commit, "handler": the except handler's commit, "abort": an exception
\* left the loop), whether a database statement raised, the parsed batch and
\* insert_rows' count
NoStep == [kind |-> "none", day |-> NoDate, fetch |-> "", result |-> "",
           dberr |-> FALSE, batch |-> <<>>, n |-> 0]

S_Init ==
    /\ s_pc = "idle"
    /\ s_ckpt = NoRow
    /\ s_rows = <<>>
    /\ s_nextId = 1
    /\ s_assets \in {NoAssets, SeededAssets}
    /\ s_run = 0
    /\ s_start = None
    /\ s_end = NoDate
    /\ s_current = NoDate
    /\ s_from = NoDate
    /\ s_attempts = <<>>
    /\ s_last = NoStep
    /\ s_maxCkpt = NoRow

\* a variant of get_last_scraped that forgets the stored date
get_last_scraped_Reset(ckpt, explicit_start) ==
    IF explicit_start # None
    THEN [current |-> The(explicit_start), last_date |-> The(explicit_start)]
    ELSE [current |-> DEFAULT_START, last_date |-> DEFAULT_START]

\* get_last_scraped(cur, explicit_start) on a table holding last_date ckpt:
\* the date returned and the last_date it leaves
get_last_scraped(ckpt, explicit_start) ==
    IF explicit_start # None
    THEN [current |-> The(explicit_start), last_date |-> The(explicit_start)]
    ELSE [current |-> ckpt, last_date |-> ckpt]

\* a variant of update_last_scraped that leaves last_date as it is
update_last_scraped_Stale(ckpt, d) == ckpt

\* update_last_scraped(cur, d): the last_date it leaves
update_last_scraped(ckpt, d) == d

\* ensure_tables: the checkpoint row after INSERT ... ON CONFLICT (id) DO NOTHING
ensure_tables(ckpt) == IF ckpt = NoRow THEN DEFAULT_START ELSE ckpt

\* run(start, end) up to the loop: connect, ensure_tables, load_asset_lookup,
\* get_last_scraped, commit, browser launch.  fail names the step that raises.
S_RunStart(start, end, fail) ==
    /\ s_pc \in {"idle", "done", "aborted"}
    /\ s_run < MaxRuns
    /\ s_run' = s_run + 1
    /\ s_start' = start
    /\ s_end' = end
    /\ s_attempts' = <<>>
    /\ UNCHANGED <<s_rows, s_nextId, s_assets>>
    /\ UNCHANGED <<nvars, cvars, vvars, pvars>>
    /\ IF fail = "db" \/ s_assets = NoAssets
       THEN \* an exception before line 228's commit: rollback, raise
            /\ s_pc' = "aborted"
            /\ s_current' = NoDate
            /\ s_from' = NoDate
            /\ s_last' = [NoStep EXCEPT !.kind = "start", !.result = "abort",
                                        !.dberr = (fail = "db")]
            /\ UNCHANGED <<s_ckpt, s_maxCkpt>>
       ELSE LET g == get_last_scraped(ensure_tables(s_ckpt), start) IN
            /\ s_ckpt' = g.last_date
            /\ s_maxCkpt' = Later(s_maxCkpt, s_ckpt)
            /\ s_current' = g.current
            /\ s_from' = g.current
            /\ s_pc' = IF fail = "browser" THEN "aborted" ELSE "loop"
            /\ s_last' = [NoStep EXCEPT !.kind = "start",
                             !.result = IF fail = "browser" THEN "abort" ELSE "committed"]

\* The statements of one loop iteration that reach the database, in order.
BodyStatements(page, batch) ==
    IF page.raised THEN <<>>                       \* page.goto / page.content raised
    ELSE IF ~page.html THEN <<"update", "commit">>
    ELSE IF batch = <<>> THEN <<"update", "commit">>
    ELSE <<"insert", "update", "commit">>

\* where the try body can fail at the database: at none of its statements,
\* or at one of them
BodyFailures(page, batch) ==
    {"none"} \cup {BodyStatements(page, batch)[i] :
                      i \in 1..Len(BodyStatements(page, batch))}

\* where the handler of line 279 can fail once it runs: after a failed
\* statement the transaction is aborted and its UPDATE raises in any case
HandlerFailures(page, bfail) ==
    IF page.raised \/ bfail = "commit" THEN {"none", "update", "commit"} ELSE {"none"}

\* One iteration of "while current <= end" (lines 251-286).
\*   page   what page.goto and page.content() gave
\*   bfail  the statement of the try body that raises, or "none"
\*   hfail  the statement of the except handler that raises, or "none"
\*   parsed what parse_html made of it (lines 256-258, 276)
S_Day(page, parsed, bfail, hfail) ==
    /\ LET d == s_current
           stmts == BodyStatements(page, parsed.rows)
           dbRaises == \E i \in 1..Len(stmts) : stmts[i] = bfail
           bodyRaises == page.raised \/ dbRaises
           \* a statement error leaves the transaction aborted: every later
           \* statement on the connection raises until a rollback
           txAborted == bfail \in {"insert", "update"} /\ dbRaises
           ins == insert_rows(s_rows, s_nextId, parsed.rows)
           fetch == IF page.raised THEN "error"
                    ELSE IF ~page.html THEN "blank" ELSE "html"
       IN
       /\ s_attempts' = Append(s_attempts, d)
       /\ UNCHANGED <<s_assets, s_run, s_start, s_end, s_from>>
       /\ UNCHANGED <<nvars, cvars, vvars, pvars>>
       /\ IF ~bodyRaises
          THEN \* lines 259-262 or 276-277 ran to the commit
               /\ s_rows' = ins.tbl
               /\ s_nextId' = ins.nextId
               /\ s_ckpt' = update_last_scraped(s_ckpt, d)
               /\ s_maxCkpt' = Later(s_maxCkpt, s_ckpt)
               /\ s_current' = d + 1
               /\ s_pc' = "loop"
               /\ s_last' = [kind |-> "day", day |-> d, fetch |-> fetch,
                             result |-> "committed", dberr |-> FALSE,
                             batch |-> parsed.rows, n |-> ins.n]
          ELSE IF txAborted \/ hfail # "none"
          THEN \* the handler's own update or commit raises: outer rollback, raise
               /\ s_pc' = "aborted"
               /\ s_nextId' = s_nextId
               /\ s_last' = [kind |-> "day", day |-> d, fetch |-> fetch,
                             result |-> "abort", dberr |-> TRUE,
                             batch |-> parsed.rows, n |-> 0]
               /\ UNCHANGED <<s_rows, s_ckpt, s_maxCkpt, s_current>>
          ELSE \* lines 281-282: the handler commits the checkpoint alone
               /\ s_rows' = s_rows
               /\ s_nextId' = s_nextId
               /\ s_ckpt' = update_last_scraped(s_ckpt, d)
               /\ s_maxCkpt' = Later(s_maxCkpt, s_ckpt)
               /\ s_current' = d + 1
               /\ s_pc' = "loop"
               /\ s_last' = [kind |-> "day", day |-> d, fetch |-> fetch,
                             result |-> "handler", dberr |-> dbRaises,
                             batch |-> parsed.rows, n |-> 0]

\* line 259 for every page a day of the model can show, computed once:
\* <<page, day, asset lookup, (rows, stats)>>
ParsedPages ==
    { <<page, d, lookup, parse_html(page, d, lookup)>> :
        page \in UNION {{q \in PagesOf(d) : q.html} : d \in Days},
        d \in Days, lookup \in {NoAssets, SeededAssets} }

\* what lines 258-259 make of the page: parse_html's result for an html
\* document, nothing for a blank one
ParsedPage(page, d, lookup) ==
    IF page.html
    THEN (CHOOSE t \in ParsedPages : t[1] = page /\ t[2] = d /\ t[3] = lookup)[4]
    ELSE [rows |-> <<>>, stats |-> NewStats(FALSE)]

\* a variant of the loop condition that leaves the end date out
LoopContinues_Exclusive(current, end) == current < end

\* while current <= end
LoopContinues(current, end) == current <= end

\* "while current <= end" holds: one iteration, whatever the site and the
\* database do
S_Iterate ==
    /\ s_pc = "loop"
    /\ LoopContinues(s_current, s_end)
    /\ \E page \in PagesOf(s_current) :
          LET parsed == ParsedPage(page, s_current, s_assets)
          IN \E bfail \in BodyFailures(page, parsed.rows) :
                \E hfail \in HandlerFailures(page, bfail) :
                    S_Day(page, parsed, bfail, hfail)

\* the loop condition fails: context.close(), cur.close(), conn.close()
S_Finish ==
    /\ s_pc = "loop"
    /\ ~LoopContinues(s_current, s_end)
    /\ s_pc' = "done"
    /\ s_last' = [NoStep EXCEPT !.kind = "finish"]
    /\ UNCHANGED <<s_ckpt, s_rows, s_nextId, s_assets, s_run, s_start, s_end,
                   s_current, s_from, s_attempts, s_maxCkpt>>
    /\ UNCHANGED <<nvars, cvars, vvars, pvars>>

S_Next ==
    \/ \E start \in {Some(d) : d \in Days} \cup {None}, end \in Days, fail \in {"none", "db", "browser"} :
          S_RunStart(start, end, fail)
    \/ S_Iterate
    \/ S_Finish

vars == <<svars, nvars, cvars, vvars, pvars>>

InitScrape == S_Init /\ N_Idle /\ C_Idle /\ V_Idle /\ P_Idle
SpecScrape == InitScrape /\ [][S_Next]_vars

MaxFairRuns == 1   \* scrape runs in one behaviour of the fair specification

S_NextFair ==
    \/ /\ s_run < MaxFairRuns
       /\ \E start \in {Some(d) : d \in Days} \cup {None}, end \in Days,
             fail \in {"none", "db", "browser"} :
             S_RunStart(start, end, fail)
    \/ S_Iterate
    \/ S_Finish

\* the loop is sequential code: page.goto gives up after its timeout, the
\* database calls and time.sleep return, so the process always takes its
\* next step; whether another run is started is left open
SpecScrapeFair ==
    InitScrape /\ [][S_NextFair]_vars /\ WF_vars(S_Iterate) /\ WF_vars(S_Finish)

\* ------------------------------------------------ claims on the scrape run
DayDone == s_last.kind = "day"

C2_NeverEarlier == s_ckpt >= s_maxCkpt

\* C2 amended: the committed checkpoint moves to an earlier date only in the
\* start step of a run given an explicit start date, and then to exactly that
\* date; a run without an explicit start and the day loop never move it back.
C2_BackOnlyByExplicitStart ==
    [][s_ckpt' < s_ckpt =>
          /\ s_last'.kind = "start"
          /\ s_start' # None
          /\ s_ckpt' = The(s_start')]_vars

\* a second run without an explicit start resumed from the stored checkpoint
\* and advanced it
C2_Witness ==
    /\ s_run = 2
    /\ s_start = None
    /\ DayDone
    /\ s_maxCkpt > NoRow
    /\ s_ckpt > s_maxCkpt

\* the columns of a stored row the claim C7 speaks of
Written(cols) ==
    [id |-> cols.id, open |-> cols.open, high |-> cols.high, low |-> cols.low,
     close |-> cols.close, volume |-> cols.volume]

Committed(step) == step.kind = "day" /\ step.result = "committed"

\* C7 as stated: a row of the batch whose natural key is already stored
\* overwrites the stored O/H/L/C and volume and keeps the stored id.
C7_ConflictOverwrites ==
    [][Committed(s_last') =>
          \A i \in 1..Len(s_last'.batch) :
              LET r == s_last'.batch[i] IN
              RowKey(r) \in DOMAIN s_rows =>
                  Written(s_rows'[RowKey(r)]) = Written(RowCols(r, s_rows[RowKey(r)].id))]_vars

\* C7 amended: a row of the batch whose natural key is already stored changes
\* nothing: the stored row keeps its id, O/H/L/C, volume and open interest,
\* and the row is not counted in insert_rows' result.
C7_ConflictKeepsStoredRow ==
    [][Committed(s_last') =>
          /\ \A k \in DOMAIN s_rows : k \in DOMAIN s_rows' /\ s_rows'[k] = s_rows[k]
          /\ s_last'.n = Cardinality(DOMAIN s_rows' \ DOMAIN s_rows)]_vars

\* a committed batch whose only row met a stored row with another close
C7_Witness ==
    /\ Committed(s_last)
    /\ Len(s_last.batch) = 1
    /\ s_last.n = 0
    /\ RowKey(s_last.batch[1]) \in DOMAIN s_rows
    /\ s_rows[RowKey(s_last.batch[1])].close # s_last.batch[1].close

\* =================================================== databento_data.py
\* ------------------------------------------------------- config tables
\* FUTURES_ROOTS in source order: <<Databento root, DB symbol>>
FuturesRootTable ==
    <<
      <<"ES", "ES">>, <<"NQ", "NQ">>, <<"YM", "YM">>, <<"RTY", "RTY">>,
      <<"CL", "CL">>, <<"NG", "NG">>, <<"RB", "RB">>, <<"HO", "HO">>,
      <<"GC", "GC">>, <<"SI", "SI">>, <<"HG", "HG">>, <<"PL", "PL">>,
      <<"PA", "PA">>, <<"ALI", "ALI">>, <<"ZC", "ZC">>, <<"ZS", "ZS">>,
      <<"ZW", "ZW">>, <<"KE", "KE">>, <<"ZM", "ZM">>, <<"ZL", "ZL">>,
      <<"ZO", "ZO">>, <<"ZR", "ZR">>, <<"LE", "LE">>, <<"HE", "HE">>,
      <<"GF", "GF">>, <<"6E", "6E">>, <<"6J", "6J">>, <<"6A", "6A">>,
      <<"6B", "6B">>, <<"6C", "6C">>, <<"6S", "6S">>, <<"6N", "6N">>,
      <<"6M", "6M">>, <<"ZB", "ZB">>, <<"ZN", "ZN">>, <<"ZF", "ZF">>,
      <<"ZT", "ZT">>, <<"ZQ", "ZQ">>, <<"SR3", "SR3">>, <<"SR1", "SR1">>,
      <<"DC", "DC">>, <<"GNF", "GNF">>, <<"CB", "CB">>, <<"CSC", "CSC">>,
      <<"BTC", "BTC">>, <<"ETH", "ETH">>, <<"LBR", "LBR">>
    >>

NRoots == 2        \* the model runs with the first NRoots entries of FUTURES_ROOTS

FuturesRootKeys == [i \in 1..NRoots |-> FuturesRootTable[i][1]]

\* the dict FUTURES_ROOTS: Databento root -> DB symbol
FUTURES_ROOTS ==
    [root \in {FuturesRootTable[i][1] : i \in 1..NRoots} |->
        FuturesRootTable[CHOOSE i \in 1..NRoots : FuturesRootTable[i][1] = root][2]]

\* ICE_FUTURES_ROOTS: every entry is commented out, the dict is empty
IceRootKeys == <<>>
ICE_FUTURES_ROOTS == [root \in {} |-> ""]

\* dict.get(key): the value, or None
DictGet(dict, key) == IF key \in DOMAIN dict THEN Some(dict[key]) ELSE None

STOCK_SYMBOLS ==
    <<
      "SPY", "QQQ", "IWM", "DIA", "AAPL", "MSFT", "GOOGL", "AMZN",
      "NVDA", "META", "TSLA", "BRKB", "AMD", "INTC", "CRM", "ORCL",
      "ADBE", "CSCO", "AVGO", "TXN", "JPM", "BAC", "WFC", "GS",
      "MS", "V", "MA", "AXP", "UNH", "JNJ", "PFE", "MRK",
      "ABBV", "LLY", "TMO", "ABT", "WMT", "HD", "MCD", "NKE",
      "SBUX", "TGT", "COST", "LOW", "XOM", "CVX", "COP", "SLB",
      "EOG", "MPC", "PSX", "VLO", "CAT", "DE", "BA", "GE",
      "HON", "UPS", "RTX", "LMT"
    >>

STOCK_PREFIX == "STK"

NStocks == 21      \* the model runs with the first NStocks entries of STOCK_SYMBOLS

StockSymbols == SubSeq(STOCK_SYMBOLS, 1, NStocks)

\* ------------------------------------------------------- vendor records
\* ts_event: a pandas Timestamp in UTC ("obj"), an ISO-8601 text ("str"), a
\* nanosecond epoch integer ("int", held in hours), or absent ("none").
NoIso == [y |-> 0, m |-> 0, d |-> 0, hh |-> 0, z |-> FALSE]
TsObj(h) == [kind |-> "obj", h |-> h, iso |-> NoIso]
TsInt(h) == [kind |-> "int", h |-> h, iso |-> NoIso]
TsStr(iso) == [kind |-> "str", h |-> 0, iso |-> iso]
TsNone == [kind |-> "none", h |-> 0, iso |-> NoIso]

\* the ISO-8601 text with trailing Z of the instant h
IsoZ(h) ==
    LET c == civil(h \div 24)
    IN [y |-> c.year, m |-> c.month, d |-> c.day, hh |-> h % 24, z |-> TRUE]

\* the instant an ISO-8601 text with trailing Z denotes
InstantOf(iso) == date(iso.y, iso.m, iso.d) * 24 + iso.hh

\* lines 286-292 / 407-412: the trade_date of ts_event under the process's
\* local UTC offset utcoff (hours), or a raised TypeError
TradeDate(ts, utcoff) ==
    CASE ts.kind = "obj" -> [ok |-> TRUE, date |-> ts.h \div 24]
         \* datetime.fromisoformat(ts_event.replace('Z', '+00:00')).date()
      [] ts.kind = "str" -> [ok |-> TRUE, date |-> date(ts.iso.y, ts.iso.m, ts.iso.d)]
         \* datetime.fromtimestamp(ts_event / 1e9).date(): local time
      [] ts.kind = "int" -> [ok |-> TRUE, date |-> (ts.h + utcoff) \div 24]
         \* None / 1e9
      [] OTHER -> [ok |-> FALSE, date |-> NoDate]

\* float(rec.get(field, 0))
FloatOr0(f) == IF f = None THEN 0 ELSE The(f)

NormSkip == [status |-> "skip", row |-> <<>>]
NormRaise == [status |-> "raise", row |-> <<>>]
\* a variant of the price test that lets a zero close through
InvalidPrice_Negative(close_px) == close_px < 0

\* "if close_px <= 0: continue" (lines 301, 421)
InvalidPrice(close_px) == close_px <= 0

\* a variant that stores the vendor's own symbol
NormRow_RawSymbol(trade_date, db_symbol, rec) ==
    [status |-> "row",
     row |-> <<[trade_date |-> trade_date, symbol |-> rec.symbol,
                open |-> FloatOr0(rec.open), high |-> FloatOr0(rec.high),
                low |-> FloatOr0(rec.low), close |-> FloatOr0(rec.close)]>>]

\* rows.append((trade_date, db_symbol, open_px, high_px, low_px, close_px))
NormRow(trade_date, db_symbol, rec) ==
    [status |-> "row",
     row |-> <<[trade_date |-> trade_date, symbol |-> db_symbol,
                open |-> FloatOr0(rec.open), high |-> FloatOr0(rec.high),
                low |-> FloatOr0(rec.low), close |-> FloatOr0(rec.close)]>>]

\* one pass of the loop of insert_futures_prices (lines 277-311)
NormFutures(rec, root_to_db, utcoff) ==
    LET db_symbol == DictGet(root_to_db, rec.root) IN
    IF db_symbol = None THEN NormSkip
    ELSE LET td == TradeDate(rec.ts_event, utcoff) IN
         IF ~td.ok THEN NormRaise
         ELSE IF InvalidPrice(FloatOr0(rec.close)) THEN NormSkip
         ELSE NormRow(td.date, The(db_symbol), rec)

\* one pass of the loop of insert_stock_prices (lines 398-431)
NormStock(rec, utcoff) ==
    IF rec.symbol = "" THEN NormSkip
    ELSE LET td == TradeDate(rec.ts_event, utcoff) IN
         IF ~td.ok THEN NormRaise
         ELSE IF InvalidPrice(FloatOr0(rec.close)) THEN NormSkip
         ELSE NormRow(td.date, STOCK_PREFIX \o rec.symbol, rec)

RECURSIVE Flatten(_)
Flatten(ss) == IF ss = <<>> THEN <<>> ELSE Head(ss) \o Flatten(Tail(ss))

\* the rows list after the loop over records, or the exception that left it
\* each[i]: what the pass over the i-th record did
NormAll(each) ==
    IF \E i \in 1..Len(each) : each[i].status = "raise"
    THEN [raised |-> TRUE, rows |-> <<>>]
    ELSE [raised |-> FALSE, rows |-> Flatten([i \in 1..Len(each) |-> each[i].row])]

\* --------------------------------------------- continuous_prices upserts
PriceKey(r) == <<r.trade_date, r.symbol>>

HasKey(tbl, k) == \E i \in 1..Len(tbl) : PriceKey(tbl[i]) = k

\* a variant without conflict resolution on a table without the unique key
PlainInsert(tbl, r) == Append(tbl, r)

\* INSERT ... ON CONFLICT (trade_date, symbol) DO UPDATE SET open, high, low, close
Upsert(tbl, r) ==
    IF HasKey(tbl, PriceKey(r))
    THEN [i \in 1..Len(tbl) |-> IF PriceKey(tbl[i]) = PriceKey(r) THEN r ELSE tbl[i]]
    ELSE Append(tbl, r)

RECURSIVE UpsertAll(_, _)
UpsertAll(tbl, rows) ==
    IF rows = <<>> THEN tbl ELSE UpsertAll(Upsert(tbl, Head(rows)), Tail(rows))

page_size == 1000

\* one statement proposing the same key twice raises ("ON CONFLICT DO UPDATE
\* command cannot affect row a second time")
TwiceInStatement(rows) ==
    \E i, j \in 1..Len(rows) : i < j /\ PriceKey(rows[i]) = PriceKey(rows[j])

\* execute_values(cur, sql, rows, page_size=1000): one statement per page
RECURSIVE execute_values(_, _)
execute_values(tbl, rows) ==
    IF rows = <<>> THEN [raised |-> FALSE, tbl |-> tbl]
    ELSE LET k == IF Len(rows) < page_size THEN Len(rows) ELSE page_size
             page == SubSeq(rows, 1, k)
         IN IF TwiceInStatement(page) THEN [raised |-> TRUE, tbl |-> tbl]
            ELSE execute_values(UpsertAll(tbl, page), SubSeq(rows, k + 1, Len(rows)))

\* the tail shared by insert_futures_prices and insert_stock_prices: the
\* committed table after the call, the value returned, whether it raised
WriteRows(tbl, normed) ==
    IF normed.raised THEN [raised |-> TRUE, tbl |-> tbl, n |-> 0, rows |-> <<>>]
    ELSE IF normed.rows = <<>> THEN [raised |-> FALSE, tbl |-> tbl, n |-> 0, rows |-> <<>>]
    ELSE LET x == execute_values(tbl, normed.rows) IN
         IF x.raised THEN [raised |-> TRUE, tbl |-> tbl, n |-> 0, rows |-> normed.rows]
         ELSE [raised |-> FALSE, tbl |-> x.tbl, n |-> Len(normed.rows),
               rows |-> normed.rows]

insert_futures_prices(tbl, records, root_to_db, utcoff) ==
    WriteRows(tbl, NormAll([i \in 1..Len(records) |->
                               NormFutures(records[i], root_to_db, utcoff)]))

insert_stock_prices(tbl, records, utcoff) ==
    WriteRows(tbl, NormAll([i \in 1..Len(records) |-> NormStock(records[i], utcoff)]))

\* -------------------------------- the writers applied to drawn records
\* the scraper is not running
S_Idle ==
    /\ s_pc = "off"
    /\ s_ckpt = NoRow
    /\ s_rows = <<>>
    /\ s_nextId = 1
    /\ s_assets = NoAssets
    /\ s_run = 0
    /\ s_start = None
    /\ s_end = NoDate
    /\ s_current = NoDate
    /\ s_from = NoDate
    /\ s_attempts = <<>>
    /\ s_last = NoStep
    /\ s_maxCkpt = NoRow

\* local UTC offsets: New York (winter), UTC, Tokyo
TzOffsets == {-5, 0, 9}

\* instants: 2024-11-01T00:00:00Z and 2024-11-01T23:00:00Z
Midnight == date(2024, 11, 1) * 24
Instants == {Midnight, Midnight + 23}

TsSamples ==
    {TsObj(Midnight), TsNone}
        \cup {TsInt(h) : h \in Instants} \cup {TsStr(IsoZ(h)) : h \in Instants}

\* open, high, low, close; the last has no close field
PxSamples ==
    { [open |-> Some(5800), high |-> Some(5850), low |-> Some(5790),
       close |-> Some(5820), volume |-> Some(12345)],
      [open |-> Some(2), high |-> Some(4), low |-> Some(2), close |-> Some(3),
       volume |-> None],
      [open |-> Some(1), high |-> Some(1), low |-> Some(0), close |-> Some(0),
       volume |-> Some(7)],
      [open |-> Some(1), high |-> Some(1), low |-> Some(-1), close |-> Some(-1),
       volume |-> Some(7)],
      [open |-> Some(1), high |-> Some(1), low |-> Some(1), close |-> None,
       volume |-> Some(7)] }

Rec(symbol, root, ts, px) ==
    [symbol |-> symbol, root |-> root, ts_event |-> ts, open |-> px.open,
     high |-> px.high, low |-> px.low, close |-> px.close, volume |-> px.volume]

\* records as fetch_futures_data builds them: root ES is mapped, XX is not
FuturesRecs ==
    {Rec(id[1], id[2], ts, px) :
        id \in {<<"ESZ24", "ES">>, <<"XXZ24", "XX">>}, ts \in TsSamples, px \in PxSamples}

\* records as fetch_stock_data builds them (no root column)
StockRecs ==
    {Rec(sym, "", ts, px) : sym \in {"SPY", ""}, ts \in TsSamples, px \in PxSamples}

N_Init ==
    /\ tz \in TzOffsets
    /\ n_fn \in {"futures", "stock"}
    /\ n_a \in IF n_fn = "futures" THEN FuturesRecs ELSE StockRecs
    /\ n_b \in IF n_fn = "futures" THEN FuturesRecs ELSE StockRecs
    /\ n_tbl = <<>>
    /\ n_out = <<>>

\* one call of the writer under study with the list records
N_Call(records) ==
    IF n_fn = "futures"
    THEN insert_futures_prices(n_tbl, records, FUTURES_ROOTS, tz)
    ELSE insert_stock_prices(n_tbl, records, tz)

N_Apply(records) ==
    LET r == N_Call(records) IN
    /\ n_tbl' = r.tbl
    /\ n_out' = Append(n_out, [records |-> records, raised |-> r.raised,
                               rows |-> r.rows, n |-> r.n])
    /\ UNCHANGED <<tz, n_fn, n_a, n_b>>
    /\ UNCHANGED <<svars, cvars, vvars, pvars>>

\* insert_*_prices(conn, [a])
N_WriteA == n_out = <<>> /\ N_Apply(<<n_a>>)

\* a later insert_*_prices(conn, [b]) on the same table; an exception of the
\* first call has ended the run
N_WriteB == Len(n_out) = 1 /\ ~n_out[1].raised /\ N_Apply(<<n_b>>)

\* insert_*_prices(conn, [a, b])
N_WriteBoth == n_out = <<>> /\ N_Apply(<<n_a, n_b>>)

N_Next == N_WriteA \/ N_WriteB \/ N_WriteBoth

InitWriters == N_Init /\ S_Idle /\ C_Idle /\ V_Idle /\ P_Idle
SpecWriters == InitWriters /\ [][N_Next]_vars

\* ------------------------------------------------ claims on the writers
RowsWithKey(tbl, k) == {i \in 1..Len(tbl) : PriceKey(tbl[i]) = k}

\* two calls, each of which wrote its one record
TwoWrites ==
    /\ Len(n_out) = 2
    /\ ~n_out[1].raised /\ n_out[1].n = 1
    /\ ~n_out[2].raised /\ n_out[2].n = 1

\* C6: after insert_futures_prices / insert_stock_prices wrote a key and a
\* later call wrote the same (trade_date, symbol) again, continuous_prices
\* holds exactly one row under the key, with the O/H/L/C of the later write.
C6_LaterWriteWins ==
    (TwoWrites /\ PriceKey(n_out[1].rows[1]) = PriceKey(n_out[2].rows[1])) =>
        LET k == PriceKey(n_out[2].rows[1]) IN
        /\ Cardinality(RowsWithKey(n_tbl, k)) = 1
        /\ \A i \in RowsWithKey(n_tbl, k) : n_tbl[i] = n_out[2].rows[1]

\* the same key written twice with another close, by the stock writer
C6_Witness ==
    /\ TwoWrites
    /\ n_fn = "stock"
    /\ PriceKey(n_out[1].rows[1]) = PriceKey(n_out[2].rows[1])
    /\ n_out[1].rows[1].close # n_out[2].rows[1].close
    /\ n_tbl = <<n_out[2].rows[1]>>

\* C10: a record stamped with the nanosecond epoch integer of an instant and
\* a record stamped with the ISO-8601 text (trailing Z) of the same instant
\* normalize to the same trade_date, whatever the local UTC offset.
C10_SameTradeDate ==
    ( /\ TwoWrites
      /\ n_a.ts_event.kind = "int"
      /\ n_b.ts_event.kind = "str"
      /\ n_b.ts_event.iso.z
      /\ InstantOf(n_b.ts_event.iso) = n_a.ts_event.h ) =>
        n_out[1].rows[1].trade_date = n_out[2].rows[1].trade_date

\* ---------------------------------------------------- get_active_contracts
month_codes == <<"F", "G", "H", "J", "K", "M", "N", "Q", "U", "V", "X", "Z">>

NContracts == 4

\* f"{year:02d}" for 0 <= year < 100
Fmt02d(year) == Fmt02(year)[1] \o Fmt02(year)[2]

\* a variant that keeps the reference year for every code
ContractAt_NoRoll(root, trade_date, i) ==
    LET current_month == civil(trade_date).month - 1
        current_year == civil(trade_date).year % 100
        month_idx == (current_month + i) % 12
    IN root \o month_codes[month_idx + 1] \o Fmt02d(current_year)

\* the contract the loop body builds for i (lines 193-195)
ContractAt(root, trade_date, i) ==
    LET current_month == civil(trade_date).month - 1
        current_year == civil(trade_date).year % 100
        month_idx == (current_month + i) % 12
        year == IF current_month + i < 12 THEN current_year
                ELSE (current_year + 1) % 100
    IN root \o month_codes[month_idx + 1] \o Fmt02d(year)

ContractRoots == {"ES", "CL", "6E"}
ContractDates == {date(y, m, 15) : y \in {1999, 2024, 2099}, m \in 1..12}

C_Init ==
    /\ c_pc = "loop"
    /\ c_root \in ContractRoots
    /\ c_date \in ContractDates
    /\ c_i = 0
    /\ c_contracts = <<>>

\* one pass of "for i in range(4)"
C_Iterate ==
    /\ c_pc = "loop"
    /\ c_i < NContracts
    /\ c_contracts' = Append(c_contracts, ContractAt(c_root, c_date, c_i))
    /\ c_i' = c_i + 1
    /\ UNCHANGED <<c_pc, c_root, c_date>>
    /\ UNCHANGED <<svars, nvars, vvars, pvars>>

\* return contracts
C_Return ==
    /\ c_pc = "loop"
    /\ c_i >= NContracts
    /\ c_pc' = "returned"
    /\ UNCHANGED <<c_root, c_date, c_i, c_contracts>>
    /\ UNCHANGED <<svars, nvars, vvars, pvars>>

C_Next == C_Iterate \/ C_Return

InitContracts == C_Init /\ S_Idle /\ N_Idle /\ V_Idle /\ P_Idle
SpecContracts == InitContracts /\ [][C_Next]_vars

\* the month letter of calendar month m (1 = January)
LetterOfMonth(m) ==
    CASE m = 1 -> "F" [] m = 2 -> "G" [] m = 3 -> "H" [] m = 4 -> "J"
      [] m = 5 -> "K" [] m = 6 -> "M" [] m = 7 -> "N" [] m = 8 -> "Q"
      [] m = 9 -> "U" [] m = 10 -> "V" [] m = 11 -> "X" [] m = 12 -> "Z"

TwoDigits(n) == Digits[(n \div 10) + 1] \o Digits[(n % 10) + 1]

AssetSymbols(assets) == {assets[i].symbol : i \in 1..Len(assets)}

\* a variant that inserts whatever the table holds
IsAbsent_Always(assets, symbol) == TRUE

\* ON CONFLICT (symbol) DO NOTHING: the row is inserted only if no row has
\* the symbol
IsAbsent(assets, symbol) == symbol \notin AssetSymbols(assets)

\* the loop of INSERT INTO assets (symbol, name) VALUES (symbol, "symbol
\* asset_type") ON CONFLICT (symbol) DO NOTHING, then commit
ensure_assets_exist(assets, symbols, asset_type) ==
    LET inserts(i) == /\ IsAbsent(assets, symbols[i])
                      /\ \A j \in 1..(i - 1) : symbols[j] # symbols[i]
        new == SelectSeq([i \in 1..Len(symbols) |-> i], inserts)
    IN assets \o [n \in 1..Len(new) |->
                    [symbol |-> symbols[new[n]],
                     name |-> symbols[new[n]] \o " " \o asset_type]]

\* ------------------------------------------------------------ the vendor
\* what str(e) of a failed request can read
MsgTimeout == <<"t", "i", "m", "e", "o", "u", "t">>
MsgNotFully == <<"n", "o", "t", "_", "f", "u", "l", "l", "y", "_", "a", "v", "a", "i", "l", "a", "b", "l", "e">>
MsgNotAvail == <<"D", "a", "t", "a", " ", "N", "o", "t", " ", "A", "v", "a", "i", "l", "a", "b", "l", "e">>
Msgs == {MsgTimeout, MsgNotFully, MsgNotAvail}

\* sub in x
Contains(x, sub) ==
    \E i \in 1..(Len(x) - Len(sub) + 1) : SubSeq(x, i, i + Len(sub) - 1) = sub

D1 == date(2024, 11, 1)
PxA == [open |-> Some(1), high |-> Some(3), low |-> Some(1), close |-> Some(2),
        volume |-> Some(10)]
PxB == [open |-> Some(2), high |-> Some(4), low |-> Some(2), close |-> Some(3),
        volume |-> Some(20)]
PxZero == [open |-> Some(1), high |-> Some(1), low |-> Some(0), close |-> Some(0),
           volume |-> Some(0)]

\* a row of data.to_df(): the symbol as its dot-separated parts, a Timestamp
DfRow(parts, day, px) == [symbol |-> parts, ts_event |-> TsObj(day * 24), px |-> px]

Worlds == {1, 2}

\* the daily bars the vendor holds for the k-th root's continuous contract
ContinuousBars(world, k, root) ==
    IF world = 1 THEN <<DfRow(<<root, "c", "0">>, D1, PxA)>>
    ELSE IF k = 1 THEN <<DfRow(<<root, "c", "0">>, D1, PxZero)>>
    ELSE <<DfRow(<<root, "c", "0">>, D1, PxA), DfRow(<<root, "c", "0">>, D1 + 1, PxB)>>

\* the daily bars the vendor holds under the parent symbol root.FUT: one row
\* per listed contract
ParentBars(world, k, root) ==
    IF world = 1 THEN <<DfRow(<<root \o "Z4">>, D1, PxB)>>
    ELSE IF k = 1
         THEN <<DfRow(<<root \o "Z4">>, D1, PxA), DfRow(<<root \o "H5">>, D1, PxB)>>
    ELSE <<>>

\* the daily bars the vendor holds for the symbols of the k-th stock batch
StockBars(world, k, batch) ==
    IF world = 1 THEN <<DfRow(<<batch[1]>>, D1, PxA)>>
    ELSE IF k = 1 THEN <<>>
    ELSE <<DfRow(<<batch[1]>>, D1, PxA), DfRow(<<batch[Len(batch)]>>, D1 + 1, PxB)>>

\* ----------------------------------------------------- the fetch functions
RECURSIVE Dotted(_)
Dotted(parts) ==
    IF Len(parts) = 1 THEN parts[1] ELSE parts[1] \o "." \o Dotted(Tail(parts))

\* x.split('.')[0] if '.' in str(x) else x
SplitDot0(parts) == IF Len(parts) > 1 THEN parts[1] ELSE Dotted(parts)

\* df.reset_index().to_dict('records'), the root column of row i being roots[i]
ToRecords(df, roots) ==
    [i \in 1..Len(df) |->
        Rec(Dotted(df[i].symbol), roots[i], df[i].ts_event, df[i].px)]

\* df['root'] = df['symbol'].apply(...)
RootsBySymbol(df) == [i \in 1..Len(df) |-> SplitDot0(df[i].symbol)]

\* df['root'] = root; a stock frame gets no root column ("")
RootsAll(df, root) == [i \in 1..Len(df) |-> root]

\* continuous_symbols
ContinuousSymbols(roots) == [i \in 1..Len(roots) |-> roots[i] \o ".c.0"]

batch_size == 20

\* symbols[i:i + batch_size]
BatchAt(symbols, i) ==
    SubSeq(symbols, i + 1, IF i + batch_size < Len(symbols) THEN i + batch_size
                           ELSE Len(symbols))

\* a variant that stops at any failed batch
StopsBatches_Always(error_msg) == TRUE

\* line 378: the message that makes fetch_stock_data break out of its loop
StopsBatches(error_msg) ==
    \/ Contains(error_msg, MsgNotFully)
    \/ Contains(lower(error_msg), <<"n", "o", "t", " ", "a", "v", "a", "i", "l", "a", "b", "l", "e">>)

\* ------------------------------------------------------------------- run
MaxVRuns == 2

\* the sections of run the flags select, in program order (lines 466-467,
\* 485, 516, 547)
Sections(flags) ==
    LET fetch_futures == ~flags.stocks_only
        fetch_stocks == ~flags.futures_only /\ Len(StockSymbols) > 0
    IN (IF fetch_futures
        THEN <<"CME">> \o (IF IceRootKeys # <<>> THEN <<"ICE">> ELSE <<>>)
        ELSE <<>>)
       \o (IF fetch_stocks THEN <<"STK">> ELSE <<>>)

SectionRoots(sec) == IF sec = "CME" THEN FuturesRootKeys ELSE IceRootKeys

SectionRootToDb(sec) == IF sec = "CME" THEN FUTURES_ROOTS ELSE ICE_FUTURES_ROOTS

\* cme_db_symbols / ice_db_symbols / stock_db_symbols; the order of a
\* list(set(...)) is arbitrary and is taken in table order
DbSymbolsOf(sec) ==
    IF sec = "STK"
    THEN [i \in 1..Len(StockSymbols) |-> STOCK_PREFIX \o StockSymbols[i]]
    ELSE [i \in 1..Len(SectionRoots(sec)) |->
             SectionRootToDb(sec)[SectionRoots(sec)[i]]]

AssetTypeOf(sec) == IF sec = "STK" THEN "Stock" ELSE "Futures"

SeqToSet(q) == {q[i] : i \in 1..Len(q)}

\* variants that ignore dry_run
ShouldEnsure_Always(dry_run) == TRUE

ShouldEnsure_Never(dry_run) == FALSE

\* "if not dry_run:" before each ensure_assets_exist (lines 495, 523, 554)
ShouldEnsure(dry_run) == ~dry_run

\* the run before the one that is starting, summarised: it ran to COMPLETE,
\* wrote to the database, and every request it made was answered
RunSummary ==
    IF v_outcome = "complete" /\ ~v_flags.dry_run /\ v_fails = <<>>
    THEN [valid |-> TRUE, flags |-> v_flags, full |-> TRUE]
    ELSE NoRun

V_Init ==
    /\ v_pc = "idle"
    /\ v_run = 0
    /\ v_flags = NoFlags
    /\ v_world \in Worlds
    /\ v_todo = <<>>
    /\ v_i = 0
    /\ v_records = <<>>
    /\ v_reqs = <<>>
    /\ v_fails = <<>>
    /\ v_fetched = {}
    /\ v_assets = <<>>
    /\ v_prices = <<>>
    /\ v_ensured = {}
    /\ v_wrote = <<>>
    /\ v_db0 = NoDb
    /\ v_prev = NoRun
    /\ v_outcome = ""
    /\ v_env = ""

\* an exception leaves run: "finally: conn.close()", nothing more is done
V_Raise ==
    /\ v_pc' = "idle"
    /\ v_outcome' = "raised"
    /\ v_todo' = <<>>

\* the environments of a run: both variables set, or one of them missing
Envs == {"ok", "no DATABENTO_API_KEY", "no DATABASE_URL"}

\* a variant that reads DATABASE_URL only when a statement is to be executed
get_db_connection_Lazy(env) == "conn"

\* get_db_connection: raises RuntimeError without DATABASE_URL
get_db_connection(env) == IF env = "no DATABASE_URL" THEN "raise" ELSE "conn"

\* get_databento_client: raises RuntimeError without DATABENTO_API_KEY
get_databento_client(env) == IF env = "no DATABENTO_API_KEY" THEN "raise" ELSE "client"

\* run(...) up to the try: block (lines 453-483); env tells which of the
\* two environment variables is missing
V_RunStart(dry_run, futures_only, stocks_only, env) ==
    /\ v_pc = "idle"
    /\ v_run < MaxVRuns
    /\ v_run' = v_run + 1
    /\ v_flags' = [dry_run |-> dry_run, futures_only |-> futures_only,
                   stocks_only |-> stocks_only]
    /\ v_prev' = RunSummary
    /\ v_db0' = [assets |-> v_assets, prices |-> v_prices]
    /\ v_i' = 0
    /\ v_records' = <<>>
    /\ v_reqs' = <<>>
    /\ v_fails' = <<>>
    /\ v_fetched' = {}
    /\ v_ensured' = {}
    /\ v_wrote' = <<>>
    /\ v_env' = env
    /\ IF get_databento_client(env) = "raise" \/ get_db_connection(env) = "raise"
       THEN /\ v_pc' = "idle"
            /\ v_outcome' = "raised"
            /\ v_todo' = <<>>
       ELSE /\ v_todo' = Sections(v_flags')
            /\ v_pc' = IF v_todo' = <<>> THEN "finish" ELSE "ensure"
            /\ v_outcome' = "running"
    /\ UNCHANGED <<v_world, v_assets, v_prices>>
    /\ UNCHANGED <<svars, nvars, cvars, pvars>>

\* the ensure step of the current section; dbfail: the database refuses
V_Ensure(dbfail) ==
    /\ v_pc = "ensure"
    /\ LET sec == Head(v_todo) IN
       IF ~ShouldEnsure(v_flags.dry_run)
       THEN /\ v_pc' = "fetch"
            /\ UNCHANGED <<v_assets, v_ensured, v_todo, v_outcome>>
       ELSE IF dbfail
       THEN /\ V_Raise
            /\ UNCHANGED <<v_assets, v_ensured>>
       ELSE /\ v_assets' = ensure_assets_exist(v_assets, DbSymbolsOf(sec), AssetTypeOf(sec))
            /\ v_ensured' = v_ensured \cup SeqToSet(DbSymbolsOf(sec))
            /\ v_pc' = "fetch"
            /\ UNCHANGED <<v_todo, v_outcome>>
    /\ v_i' = 0
    /\ UNCHANGED <<v_run, v_flags, v_world, v_records, v_reqs, v_fails, v_fetched,
                   v_prices, v_wrote, v_db0, v_prev>>
    /\ UNCHANGED v_env
    /\ UNCHANGED <<svars, nvars, cvars, pvars>>

Request(sec, symbols) == [sec |-> sec, symbols |-> symbols]
Failure(req, msg) == [req |-> req, msg |-> msg]

\* fetch_futures_data up to the end of its first try (lines 206-241); fail
\* is None or the message of the exception get_range raised
V_FetchPrimary(fail) ==
    /\ v_pc = "fetch"
    /\ Head(v_todo) # "STK"
    /\ LET sec == Head(v_todo)
           roots == SectionRoots(sec)
           df == Flatten([k \in 1..Len(roots) |-> ContinuousBars(v_world, k, roots[k])])
       IN IF roots = <<>>
          THEN /\ v_records' = <<>>
               /\ v_pc' = "write"
               /\ v_fetched' = v_fetched \cup {sec}
               /\ UNCHANGED <<v_reqs, v_fails, v_i>>
          ELSE /\ v_reqs' = Append(v_reqs, Request(sec, ContinuousSymbols(roots)))
               /\ IF fail = None
                  THEN /\ v_records' = ToRecords(df, RootsBySymbol(df))
                       /\ v_pc' = "write"
                       /\ v_fetched' = v_fetched \cup {sec}
                       /\ UNCHANGED <<v_fails, v_i>>
                  ELSE /\ v_records' = <<>>
                       /\ v_fails' = Append(v_fails, Failure(Len(v_reqs'), The(fail)))
                       /\ v_pc' = "fallback"
                       /\ v_i' = 1
                       /\ UNCHANGED v_fetched
    /\ UNCHANGED <<v_run, v_flags, v_world, v_todo, v_assets, v_prices, v_ensured,
                   v_wrote, v_db0, v_prev, v_outcome>>
    /\ UNCHANGED v_env
    /\ UNCHANGED <<svars, nvars, cvars, pvars>>

\* a variant whose fallback loop ends at the first root that fails
StopsFallback_Always(error_msg) == TRUE

\* lines 261-262: the except clause of the fallback only prints, so no
\* message ends the loop
StopsFallback(error_msg) == FALSE

\* one pass of "for root in roots" of the fallback (lines 245-262)
V_FetchFallback(fail) ==
    /\ v_pc = "fallback"
    /\ LET sec == Head(v_todo)
           roots == SectionRoots(sec)
           root == roots[v_i]
       IN /\ v_reqs' = Append(v_reqs, Request(sec, <<root \o ".FUT">>))
          /\ IF fail = None
             THEN /\ v_records' = v_records \o
                        ToRecords(ParentBars(v_world, v_i, root),
                                  RootsAll(ParentBars(v_world, v_i, root), root))
                  /\ UNCHANGED v_fails
             ELSE /\ v_fails' = Append(v_fails, Failure(Len(v_reqs'), The(fail)))
                  /\ UNCHANGED v_records
          /\ v_i' = v_i + 1
          /\ IF v_i = Len(roots) \/ (fail # None /\ StopsFallback(The(fail)))
             THEN v_pc' = "write" /\ v_fetched' = v_fetched \cup {sec}
             ELSE UNCHANGED <<v_pc, v_fetched>>
    /\ UNCHANGED <<v_run, v_flags, v_world, v_todo, v_assets, v_prices, v_ensured,
                   v_wrote, v_db0, v_prev, v_outcome>>
    /\ UNCHANGED v_env
    /\ UNCHANGED <<svars, nvars, cvars, pvars>>

\* one pass of "for i in range(0, len(symbols), batch_size)" of
\* fetch_stock_data (lines 361-383); v_i is i
V_FetchBatch(fail) ==
    /\ v_pc = "fetch"
    /\ Head(v_todo) = "STK"
    /\ LET batch == BatchAt(StockSymbols, v_i)
           k == (v_i \div batch_size) + 1
           last == v_i + batch_size >= Len(StockSymbols)
           break == fail # None /\ StopsBatches(The(fail))
           \* all_records = [] before the loop
           all_records == IF v_i = 0 THEN <<>> ELSE v_records
       IN /\ v_reqs' = Append(v_reqs, Request("STK", batch))
          /\ IF fail = None
             THEN /\ v_records' = all_records \o
                        ToRecords(StockBars(v_world, k, batch),
                                  RootsAll(StockBars(v_world, k, batch), ""))
                  /\ UNCHANGED v_fails
             ELSE /\ v_fails' = Append(v_fails, Failure(Len(v_reqs'), The(fail)))
                  /\ v_records' = all_records
          /\ v_i' = v_i + batch_size
          /\ IF break \/ last
             THEN v_pc' = "write" /\ v_fetched' = v_fetched \cup {"STK"}
             ELSE UNCHANGED <<v_pc, v_fetched>>
    /\ UNCHANGED <<v_run, v_flags, v_world, v_todo, v_assets, v_prices, v_ensured,
                   v_wrote, v_db0, v_prev, v_outcome>>
    /\ UNCHANGED v_env
    /\ UNCHANGED <<svars, nvars, cvars, pvars>>

\* insert_futures_prices / insert_stock_prices as run calls them
InsertSection(sec, tbl, records) ==
    IF sec = "STK" THEN insert_stock_prices(tbl, records, tz)
    ELSE insert_futures_prices(tbl, records, SectionRootToDb(sec), tz)

\* "if dry_run: ... elif records: insert..." of the current section (lines
\* 508-513, 536-541, 560-567), then on to the next section
V_Write(dbfail) ==
    /\ v_pc = "write"
    /\ LET sec == Head(v_todo)
           r == InsertSection(sec, v_prices, v_records)
           rest == Tail(v_todo)
       IN IF v_flags.dry_run \/ v_records = <<>>
          THEN /\ v_todo' = rest
               /\ v_pc' = IF rest = <<>> THEN "finish" ELSE "ensure"
               /\ UNCHANGED <<v_prices, v_wrote, v_outcome>>
          ELSE IF dbfail \/ r.raised
          THEN /\ V_Raise
               /\ UNCHANGED <<v_prices, v_wrote>>
          ELSE /\ v_prices' = r.tbl
               /\ v_wrote' = v_wrote \o r.rows
               /\ v_todo' = rest
               /\ v_pc' = IF rest = <<>> THEN "finish" ELSE "ensure"
               /\ UNCHANGED v_outcome
    /\ UNCHANGED <<v_run, v_flags, v_world, v_i, v_records, v_reqs, v_fails,
                   v_fetched, v_assets, v_ensured, v_db0, v_prev>>
    /\ UNCHANGED v_env
    /\ UNCHANGED <<svars, nvars, cvars, pvars>>

\* "COMPLETE", then "finally: conn.close()" (lines 569-575)
V_Finish ==
    /\ v_pc = "finish"
    /\ v_pc' = "idle"
    /\ v_outcome' = "complete"
    /\ UNCHANGED <<v_run, v_flags, v_world, v_todo, v_i, v_records, v_reqs, v_fails,
                   v_fetched, v_assets, v_prices, v_ensured, v_wrote, v_db0, v_prev>>
    /\ UNCHANGED v_env
    /\ UNCHANGED <<svars, nvars, cvars, pvars>>

\* what a request can do: answer (None) or raise with a message
Outcomes == {None} \cup {Some(m) : m \in Msgs}
PrimaryOutcomes == {None, Some(MsgNotFully)}
FallbackOutcomes == {None, Some(MsgNotAvail)}

V_Next ==
    \/ \E dry_run, futures_only, stocks_only \in BOOLEAN,
          env \in Envs :
            V_RunStart(dry_run, futures_only, stocks_only, env)
    \/ \E dbfail \in BOOLEAN : V_Ensure(dbfail)
    \/ \E fail \in PrimaryOutcomes : V_FetchPrimary(fail)
    \/ \E fail \in FallbackOutcomes : V_FetchFallback(fail)
    \/ \E fail \in Outcomes : V_FetchBatch(fail)
    \/ \E dbfail \in BOOLEAN : V_Write(dbfail)
    \/ V_Finish

InitVendor == V_Init /\ S_Idle /\ N_Idle /\ C_Idle /\ P_Idle
SpecVendor == InitVendor /\ [][V_Next]_vars

\* -------------------------------------------------- claims on the run
\* the requests of this run that asked for the symbols of section sec
Requested(sec, symbols) ==
    \E n \in 1..Len(v_reqs) : v_reqs[n] = Request(sec, symbols)

\* the first request of a futures section, for every continuous contract,
\* raised
PrimaryFailed(sec) ==
    \E f \in 1..Len(v_fails) :
        v_reqs[v_fails[f].req] = Request(sec, ContinuousSymbols(SectionRoots(sec)))

\* the offsets at which fetch_stock_data cuts its batches
BatchStarts == {i \in 0..(Len(StockSymbols) - 1) : i % 20 = 0}

\* every root of a futures section whose first request failed is requested
EveryRootRequested ==
    \A sec \in v_fetched \ {"STK"} :
        PrimaryFailed(sec) =>
            \A k \in 1..Len(SectionRoots(sec)) :
                Requested(sec, <<SectionRoots(sec)[k] \o ".FUT">>)

\* a failed request never ends the fetch function it was made in
FailureIsCaught ==
    \A f \in 1..Len(v_fails) :
        LET sec == v_reqs[v_fails[f].req].sec IN
        \/ sec \in v_fetched
        \/ v_pc \in {"fetch", "fallback"} /\ Head(v_todo) = sec

SaysNotAvailable(msg) ==
    \/ \E i \in 1..Len(msg) :
          i + 18 <= Len(msg) /\ SubSeq(msg, i, i + 18) = <<"n", "o", "t", "_", "f", "u", "l", "l", "y", "_", "a", "v", "a", "i", "l", "a", "b", "l", "e">>
    \/ \E i \in 1..Len(msg) :
          i + 12 <= Len(msg) /\ lower(SubSeq(msg, i, i + 12)) = <<"n", "o", "t", " ", "a", "v", "a", "i", "l", "a", "b", "l", "e">>

C4_DryRunLeavesDatabase ==
    (v_run > 0 /\ v_flags.dry_run) =>
        /\ v_assets = v_db0.assets
        /\ v_prices = v_db0.prices
        /\ v_ensured = {}
        /\ v_wrote = <<>>
        /\ v_outcome = "complete" =>
              \A sec \in SeqToSet(Sections(v_flags)) :
                  /\ sec \in v_fetched
                  /\ \E n \in 1..Len(v_reqs) : v_reqs[n].sec = sec

\* a completed dry run over both sources that fetched records and found
\* rows of an earlier run in the database
C4_Witness ==
    /\ v_flags.dry_run
    /\ v_outcome = "complete"
    /\ v_fetched = {"CME", "STK"}
    /\ v_records # <<>>
    /\ v_prices # <<>>
    /\ v_fails # <<>>

\* C5: every price row a non-dry run has written carries a symbol that
\* ensure_assets_exist committed earlier in the same run, and that has a
\* row in assets.
C5_AssetBeforePrice ==
    \A n \in 1..Len(v_wrote) :
        /\ v_wrote[n].symbol \in v_ensured
        /\ v_wrote[n].symbol \in AssetSymbols(v_assets)

\* a run that started with no asset rows wrote a futures and a stock row
C5_Witness ==
    /\ ~v_flags.dry_run
    /\ v_db0.assets = <<>>
    /\ \E n \in 1..Len(v_wrote) : v_wrote[n].symbol = "ES"
    /\ \E n \in 1..Len(v_wrote) : v_wrote[n].symbol = "STKSPY"

KeysOf(prices) == {PriceKey(prices[n]) : n \in 1..Len(prices)}

\* this run and the run before it took the same flags, were not dry, ran to
\* COMPLETE and had every request answered
Rerun ==
    /\ v_pc = "idle"
    /\ v_outcome = "complete"
    /\ ~v_flags.dry_run
    /\ v_fails = <<>>
    /\ v_prev.full
    /\ v_prev.flags = v_flags

\* C8: a re-run over an ingested range, the vendor answering as before, leaves
\* the keys and the row count of continuous_prices and of assets as the first
\* run left them.
C8_RerunAddsNothing ==
    Rerun =>
        /\ KeysOf(v_prices) = KeysOf(v_db0.prices)
        /\ Len(v_prices) = Len(v_db0.prices)
        /\ AssetSymbols(v_assets) = AssetSymbols(v_db0.assets)
        /\ Len(v_assets) = Len(v_db0.assets)

\* a re-run of both sources over a table that holds futures and stock rows
C8_Witness ==
    /\ Rerun
    /\ v_flags = NoFlags
    /\ Len(v_wrote) >= 2
    /\ Len(v_prices) = Len(v_wrote)
    /\ Len(v_assets) = NRoots + NStocks

\* ------------------------------------- claims on the normalizers (C11-C13)
\* one call was made with the list [a, b]
BothWritten == Len(n_out) = 1 /\ n_out[1].records = <<n_a, n_b>>

ClosePositive(rec) == rec.close # None /\ The(rec.close) > 0

\* the writer under study knows the record's symbol
SymbolKnown(rec) ==
    IF n_fn = "futures" THEN rec.root \in DOMAIN FUTURES_ROOTS ELSE rec.symbol # ""

\* a record the normalizer has to reject
MustReject(rec) ==
    ~ClosePositive(rec) \/ ~SymbolKnown(rec) \/ rec.ts_event.kind = "none"

\* C11: in a call with a record that must be rejected (close <= 0, unmapped
\* root, missing ts_event) and a sound record, the writer does not raise,
\* writes the sound record and returns 1: the rejected one leaves no row.
C11_RejectedDropped ==
    (BothWritten /\ MustReject(n_a) /\ ~MustReject(n_b)) =>
        /\ ~n_out[1].raised
        /\ n_out[1].n = 1
        /\ Len(n_tbl) = 1
        /\ n_tbl[1].close = The(n_b.close)

\* the same with the missing ts_event left out of the rejected records
C11_DroppedWhenStamped ==
    (BothWritten /\ MustReject(n_a) /\ n_a.ts_event.kind # "none" /\ ~MustReject(n_b)) =>
        /\ ~n_out[1].raised
        /\ n_out[1].n = 1
        /\ Len(n_tbl) = 1
        /\ n_tbl[1].close = The(n_b.close)

\* the first call was made with the list [a]
FirstWritten == Len(n_out) >= 1 /\ n_out[1].records = <<n_a>>

\* C12: a record whose close is <= 0 (or missing, read as 0) yields no row,
\* whether ts_event is a Timestamp, an ISO-8601 text or an epoch integer, in
\* insert_futures_prices and in insert_stock_prices alike.
C12_NoRowForNonPositiveClose ==
    (FirstWritten /\ ~ClosePositive(n_a) /\ n_a.ts_event.kind \in {"obj", "str", "int"}) =>
        /\ ~n_out[1].raised
        /\ n_out[1].rows = <<>>
        /\ n_out[1].n = 0
        /\ (Len(n_out) = 1 => n_tbl = <<>>)

\* a stock record with close 0 and an epoch integer stamp left no row
C12_Witness ==
    /\ FirstWritten
    /\ Len(n_out) = 1
    /\ n_fn = "stock"
    /\ n_a.symbol = "SPY"
    /\ n_a.close = Some(0)
    /\ n_a.ts_event.kind = "int"
    /\ n_tbl = <<>>

\* the calendar date a Timestamp or an ISO-8601 text carries
DateOfStamp(ts) ==
    IF ts.kind = "obj" THEN ts.h \div 24 ELSE date(ts.iso.y, ts.iso.m, ts.iso.d)

\* the symbol the row of a record is stored under
StoredSymbol(rec) == IF n_fn = "futures" THEN FUTURES_ROOTS[rec.root] ELSE "STK" \o rec.symbol

\* a sound record with a Timestamp or ISO-8601 ts_event, written alone
SoundWritten ==
    /\ FirstWritten
    /\ ClosePositive(n_a)
    /\ SymbolKnown(n_a)
    /\ n_a.ts_event.kind \in {"obj", "str"}

MaxTrs == 4        \* tr elements of one table

ParseDay == date(2024, 11, 1)

TrCorn == Th(<<"Corn(CBOT)">>)
TrWheat == Th(<<"Wheat(CBOT)">>)
TrGold == Th(<<"Gold(COMEX)">>)
TrGood ==
    DataRow(<<"H">>, yymmdd(ParseDay), <<"4">>, <<"5">>, <<"3">>, <<"4", ".", "5">>,
            <<"1", ",", "0", "0", "0">>, <<"7">>)
\* a volume that int() rejects
TrBadVolume ==
    DataRow(<<"K">>, yymmdd(ParseDay), <<"1">>, <<"1">>, <<"1">>, <<"1">>,
            <<"1", ".", "5">>, <<"1">>)
\* eight columns: no open interest
TrEight ==
    Td(<<<<"N">>, <<"x">>, <<"6">>, <<"7">>, <<"5">>, <<"6">>, <<"0">>, <<"-">>>>)
TrShort == Td(<<<<"H">>, <<"x">>>>)
TrTotal ==
    Td(<<<<"T", "o", "t", "a", "l", " ", "V", "o", "l", "u", "m", "e">>, <<"2">>>>)
TrEmpty == Td(<<>>)

TrSamples ==
    {TrCorn, TrWheat, TrGold, TrGood, TrBadVolume, TrEight, TrShort, TrTotal, TrEmpty}

\* asset lookups: Corn and Wheat, or Wheat alone (Corn is mapped, not an asset)
LookupSamples == {SeededAssets, ("W" :> 2)}

P_Init ==
    /\ p_pc = "start"
    /\ p_lookup \in LookupSamples
    /\ p_trs = <<>>
    /\ p_acc = <<>>
    /\ p_out = <<>>

\* soup.find("table", class_="strat") and "if not table: return rows, stats"
P_Find(table) ==
    /\ p_pc = "start"
    /\ IF table
       THEN /\ p_pc' = "loop"
            /\ p_acc' = [current_root |-> None, rows |-> <<>>, stats |-> NewStats(TRUE)]
            /\ UNCHANGED p_out
       ELSE /\ p_pc' = "returned"
            /\ p_out' = [rows |-> <<>>, stats |-> NewStats(FALSE)]
            /\ UNCHANGED p_acc
    /\ UNCHANGED <<p_lookup, p_trs>>
    /\ UNCHANGED <<svars, nvars, cvars, vvars>>

\* one round of "for tr in table.find_all('tr')"
P_Tr(tr) ==
    /\ p_pc = "loop"
    /\ Len(p_trs) < MaxTrs
    /\ p_trs' = Append(p_trs, tr)
    /\ p_acc' = ParseTr(p_acc, tr, ParseDay, p_lookup)
    /\ UNCHANGED <<p_pc, p_lookup, p_out>>
    /\ UNCHANGED <<svars, nvars, cvars, vvars>>

\* the loop is over: "return rows, stats"
P_Return ==
    /\ p_pc = "loop"
    /\ p_pc' = "returned"
    /\ p_out' = [rows |-> p_acc.rows, stats |-> p_acc.stats]
    /\ UNCHANGED <<p_lookup, p_trs, p_acc>>
    /\ UNCHANGED <<svars, nvars, cvars, vvars>>

P_Next ==
    \/ \E table \in BOOLEAN : P_Find(table)
    \/ \E tr \in TrSamples : P_Tr(tr)
    \/ P_Return

InitParse == P_Init /\ S_Idle /\ N_Idle /\ C_Idle /\ V_Idle

SpecParse == InitParse /\ [][P_Next]_vars

\* the page the loop has gone through
ScannedPage ==
    [raised |-> FALSE, html |-> TRUE, table |-> p_out.stats.had_table, trs |-> p_trs]

\* the loop, one tr at a time, returns what parse_html returns for the page
P_AgreesWithParseHtml ==
    p_pc = "returned" => p_out = parse_html(ScannedPage, ParseDay, p_lookup)

\* ---- C14 ----
\* the header row in force for the i-th tr: the last header above it (0: none)
HeaderAbove(i) ==
    LET hs == {j \in 1..(i - 1) : p_trs[j].th # None}
    IN IF hs = {} THEN 0 ELSE CHOOSE j \in hs : \A k \in hs : k <= j

HeaderName(j) == SectionName(The(p_trs[j].th))

\* the asset of the section the i-th tr stands in, if its header is mapped
\* and the root is in the asset lookup
AssetAbove(i) ==
    LET j == HeaderAbove(i)
        root == IF j = 0 THEN None ELSE NAME_TO_ROOT(HeaderName(j))
    IN IF root # None /\ The(root) \in DOMAIN p_lookup
       THEN Some(p_lookup[The(root)]) ELSE None

IsDataRow(tr) ==
    /\ tr.th = None
    /\ Len(tr.tds) >= 8
    /\ ~startswith(lower(strip(tr.tds[1])), TotalVolume)

\* every number cell of the data row converts
WellFormed(tr) ==
    /\ \A k \in 3..6 : to_float(tr.tds[k]).ok
    /\ to_int(tr.tds[8]).ok
    /\ Len(tr.tds) > 8 => to_int(tr.tds[9]).ok

\* the well-formed data rows that stand under a mapped header, in page order
RowsUnderMapped ==
    SelectSeq([i \in 1..Len(p_trs) |-> i],
              LAMBDA i : /\ IsDataRow(p_trs[i])
                         /\ WellFormed(p_trs[i])
                         /\ AssetAbove(i) # None)

\* C14: every returned row comes from a data row under a mapped header and
\* carries the asset of the last header above that data row, so a data row
\* under an unmapped header yields no row; every unmapped header name is in
\* unknown_sections; Corn(CBOT) followed by one 9-column row yields one row.
C14_AttributedToLastHeader ==
    (p_pc = "returned" /\ p_out.stats.had_table) =>
        /\ Len(p_out.rows) = Len(RowsUnderMapped)
        /\ \A k \in 1..Len(p_out.rows) :
               /\ p_out.rows[k].asset_id = The(AssetAbove(RowsUnderMapped[k]))
               /\ p_out.rows[k].contract_code = strip(p_trs[RowsUnderMapped[k]].tds[1])
        /\ \A j \in 1..Len(p_trs) :
               (p_trs[j].th # None /\ NAME_TO_ROOT(HeaderName(j)) = None)
                   => HeaderName(j) \in p_out.stats.unknown_sections
        /\ (p_trs = <<TrCorn, TrGood>> /\ p_lookup = SeededAssets)
               => (Len(p_out.rows) = 1 /\ p_out.rows[1].asset_id = SeededAssets["C"])

\* a Corn row, then an unmapped section with a data row of its own
C14_Witness ==
    /\ p_pc = "returned"
    /\ p_lookup = SeededAssets
    /\ p_trs = <<TrCorn, TrGood, TrGold, TrGood>>
    /\ Len(p_out.rows) = 1
    /\ p_out.rows[1].asset_id = 1
    /\ p_out.stats.rows_unknown_root = 1
    /\ p_out.stats.unknown_sections = {<<"Gold(COMEX)">>}

\* ---- C20 ----
\* C20: on return every scanned data row is counted in exactly one bucket,
\* lines_scanned = rows_parsed + rows_unknown_root + rows_bad_format, every
\* data row of the page was scanned, and rows_parsed rows are returned;
\* parse_html returns for every page (P_Tr and P_Return are always defined).
C20_EveryRowInOneBucket ==
    p_pc = "returned" =>
        /\ p_out.stats.lines_scanned =
               p_out.stats.rows_parsed + p_out.stats.rows_unknown_root
                   + p_out.stats.rows_bad_format
        /\ Len(p_out.rows) = p_out.stats.rows_parsed
        /\ p_out.stats.lines_scanned =
               Cardinality({i \in 1..Len(p_trs) : IsDataRow(p_trs[i])})

\* a row above every header, then a section with a parsed row and a row of
\* bad format: one row in each bucket
C20_Witness ==
    /\ p_pc = "returned"
    /\ p_lookup = SeededAssets
    /\ p_trs = <<TrGood, TrCorn, TrGood, TrBadVolume>>
    /\ p_out.stats.lines_scanned = 3
    /\ p_out.stats.rows_parsed = 1
    /\ p_out.stats.rows_unknown_root = 1
    /\ p_out.stats.rows_bad_format = 1
    /\ Len(p_out.rows) = 1

\* ---- C15 ----
\* C15: a run started without DATABENTO_API_KEY or without DATABASE_URL has
\* raised at startup: it has issued no vendor request and executed no database
\* statement (nothing ensured, nothing written, both tables as the run found
\* them), whether it is a dry run or not.
C15_RaisesAtStartup ==
    (v_run > 0 /\ v_env # "ok") =>
        /\ v_outcome = "raised"
        /\ v_pc = "idle"
        /\ v_reqs = <<>>
        /\ v_fails = <<>>
        /\ v_ensured = {}
        /\ v_wrote = <<>>
        /\ [assets |-> v_assets, prices |-> v_prices] = v_db0

\* a dry run without DATABASE_URL, started after a run that wrote prices
C15_Witness ==
    /\ v_run = 2
    /\ v_env = "no DATABASE_URL"
    /\ v_flags.dry_run
    /\ v_outcome = "raised"
    /\ v_prices # <<>>

\* a run without the vendor credential that is no dry run
C15_WitnessNoKey ==
    /\ v_run > 0
    /\ v_env = "no DATABENTO_API_KEY"
    /\ ~v_flags.dry_run
    /\ v_outcome = "raised"

\* ---- C16 ----
\* the n-th request of this run raised
RequestFailed(n) == \E f \in 1..Len(v_fails) : v_fails[f].req = n

\* what the fallback request for the k-th root returns, as records
FallbackRecords(k) ==
    LET root == SectionRoots("CME")[k]
        df == ParentBars(v_world, k, root)
    IN ToRecords(df, RootsAll(df, root))

\* C16: when fetch_futures_data has returned, the request for the continuous
\* contracts was issued first; the fallback was entered exactly when that
\* request raised; it then issued one root.FUT request per root, in the order
\* of the list, for every root, whatever failed; and the result is the
\* records of the roots whose fallback request did not raise, in order.
C16_FallbackPerRoot ==
    (v_pc = "write" /\ Head(v_todo) = "CME") =>
        LET roots == SectionRoots("CME") IN
        /\ v_reqs[1] = Request("CME", ContinuousSymbols(roots))
        /\ Len(v_reqs) > 1 <=> RequestFailed(1)
        /\ RequestFailed(1) =>
              /\ Len(v_reqs) = 1 + Len(roots)
              /\ \A k \in 1..Len(roots) :
                     v_reqs[1 + k] = Request("CME", <<roots[k] \o ".FUT">>)
              /\ v_records =
                     Flatten([k \in 1..Len(roots) |->
                                 IF RequestFailed(1 + k) THEN <<>> ELSE FallbackRecords(k)])
              /\ \A i \in 1..Len(v_records) :
                     \E k \in 1..Len(roots) :
                         ~RequestFailed(1 + k) /\ v_records[i].root = roots[k]

\* the primary request and the fallback of the first root raised, the
\* fallback of the second root returned its records
C16_Witness ==
    /\ v_pc = "write"
    /\ Head(v_todo) = "CME"
    /\ RequestFailed(1)
    /\ RequestFailed(2)
    /\ ~RequestFailed(3)
    /\ Len(v_reqs) = 3
    /\ v_records # <<>>
    /\ \A i \in 1..Len(v_records) : v_records[i].root = SectionRoots("CME")[2]

\* ---- C17 ----
\* the latest step was a day of the loop in which a statement or the commit
\* of the try body raised
DayDbFailure == DayDone /\ s_last.dberr

\* C17, the scrape run: a write or commit failure in a day's unit of work
\* propagates and aborts the run, so no later day is fetched.
C17_DbFailureAborts == DayDbFailure => s_pc = "aborted"

\* what does hold in the scrape run: a failure that is not followed by the
\* abort of the run is a failed commit that the handler of line 279 caught,
\* and the rows of that day are not stored
C17_CaughtFailureIsCommit ==
    (DayDbFailure /\ s_pc # "aborted") =>
        /\ s_last.result = "handler"
        /\ s_last.n = 0
        /\ s_ckpt = s_last.day
        /\ s_current = s_last.day + 1

\* C17, the vendor-API run: after a database failure in a section the run is
\* over, no section is left to fetch or write, and the rows the run wrote
\* before are still in continuous_prices.
C17_VendorRunAborts ==
    (v_outcome = "raised" /\ v_env = "ok") =>
        /\ v_pc = "idle"
        /\ v_todo = <<>>
        /\ \A i \in 1..Len(v_wrote) : HasKey(v_prices, PriceKey(v_wrote[i]))
        /\ v_ensured \subseteq AssetSymbols(v_assets)

\* ---- C18 ----
\* get_last_scraped has returned the starting date of this run
RunStarted == s_from # NoDate

\* the first n days from the starting date
DaysFrom(n) == [i \in 1..n |-> s_from + (i - 1)]

\* the number of days from the starting date to the end date
SpanLen == IF s_from > s_end THEN 0 ELSE (s_end - s_from) + 1

C18_AttemptsInOrder ==
    RunStarted =>
        /\ s_start # None => s_from = The(s_start)
        /\ (s_start = None /\ s_last.kind = "start") => s_from = s_ckpt
        /\ Len(s_attempts) <= SpanLen
        /\ s_attempts = DaysFrom(Len(s_attempts))
        /\ s_pc = "done" =>
              /\ s_attempts = DaysFrom(SpanLen)
              /\ s_from <= s_end => s_ckpt = s_end
        /\ s_from > s_end => s_attempts = <<>>

InsertRolledBack ==
    /\ DayDone
    /\ s_last.fetch = "html"
    /\ s_last.batch # <<>>
    /\ s_last.dberr
    /\ s_last.result # "committed"

C19_RowsWithCheckpoint ==
    DayDone =>
        /\ s_last.n > 0 => (s_last.result = "committed" /\ s_ckpt = s_last.day)
        /\ s_last.result = "abort" => s_ckpt < s_last.day \/ s_ckpt = s_from

====
